---- MODULE Spec2Model ----
(***************************************************************************)
(* A model of the four-player partnership domino engine of                 *)
(* src/domino_game.py: Player (hand, legal moves, taking a turn) and Game  *)
(* (new_game, new_round, step, bonus points, lock detection, settlement,   *)
(* the play_round / play_game loops).                                      *)
(*                                                                         *)
(* Python lists are sequences (1-based here, 0-based in the source; seat   *)
(* indexes keep the source's 0-based values).  A tile is <<a, b>>; None is *)
(* the empty tuple <<>>.  Player objects are identified by their names.    *)
(***************************************************************************)
EXTENDS Integers, Sequences, FiniteSets, TLC

VARIABLES
    pc,                     \* position in play_game / play_round
    players,                \* Game.players: the seats, a sequence of names
    dominos,                \* Player._dominos of each player
    score,                  \* Player.score of each player
    played_dominos,         \* Game.played_dominos: the board
    round_history,          \* Game.round_history: TurnDataPoint records
    winner,                 \* Game.winner
    first_game_round_step,  \* Game.first_game_round_step
    next_player_index,      \* Game.next_player_index (0-based seat)
    deviations,             \* observer: chooser answers other than moves[0]
    round_start_score       \* observer: the scores when the round was dealt

vars == <<pc, players, dominos, score, played_dominos, round_history, winner,
          first_game_round_step, next_player_index, deviations,
          round_start_score>>

----------------------------------------------------------------------------
(* Bounds of the model *)

\* the shuffles new_round may draw: the first NumPools entries of ShuffledPools
NumPools == 2
\* how many times per game a chooser may answer something other than moves[0]
MaxDeviations == 1
\* the target score handed to Game(round_score)
RoundScore == 20
\* the turns followed in one round (play_round's loop has no bound of its own)
MaxTurns == 60
\* the longest board handed to is_locked on its own
MaxBoardLen == 5
\* the longest history handed to check_for_bonus_points on its own
MaxHistory == 4
\* the highest score a player object may carry into another game
MaxCarriedScore == 32

----------------------------------------------------------------------------
(* Program constants *)

num_players == 4
bonus_points == 25
LockCount == 8

PlayerNames == {"P1", "P2", "P3", "P4"}

DefaultPlayers == <<"P1", "P2", "P3", "P4">>

None == <<>>

DOMINOS ==
    << <<0,0>>, <<0,1>>, <<0,2>>, <<0,3>>, <<0,4>>, <<0,5>>, <<0,6>>, <<1,1>>,
       <<1,2>>, <<1,3>>, <<1,4>>, <<1,5>>, <<1,6>>, <<2,2>>, <<2,3>>, <<2,4>>,
       <<2,5>>, <<2,6>>, <<3,3>>, <<3,4>>, <<3,5>>, <<3,6>>, <<4,4>>, <<4,5>>,
       <<4,6>>, <<5,5>>, <<5,6>>, <<6,6>> >>

\* Outcomes of random.shuffle(pool) in new_round: permutations of DOMINOS.
ShuffledPools ==
    << << <<0,4>>, <<1,1>>, <<1,2>>, <<3,5>>, <<2,3>>, <<2,6>>, <<0,1>>,
          <<5,6>>, <<1,5>>, <<2,2>>, <<3,4>>, <<0,5>>, <<4,6>>, <<0,2>>,
          <<6,6>>, <<4,5>>, <<4,4>>, <<1,4>>, <<0,0>>, <<5,5>>, <<2,5>>,
          <<1,3>>, <<1,6>>, <<3,6>>, <<0,3>>, <<2,4>>, <<0,6>>, <<3,3>> >>,
       << <<0,3>>, <<0,6>>, <<4,4>>, <<1,1>>, <<1,5>>, <<2,6>>, <<2,3>>,
          <<0,1>>, <<2,2>>, <<4,6>>, <<5,5>>, <<1,2>>, <<3,4>>, <<3,6>>,
          <<3,3>>, <<2,4>>, <<0,2>>, <<6,6>>, <<4,5>>, <<3,5>>, <<1,4>>,
          <<1,6>>, <<0,5>>, <<0,4>>, <<0,0>>, <<5,6>>, <<1,3>>, <<2,5>> >>,
       << <<4,4>>, <<0,3>>, <<1,5>>, <<3,5>>, <<4,6>>, <<0,0>>, <<3,4>>,
          <<1,4>>, <<2,2>>, <<2,3>>, <<1,2>>, <<1,3>>, <<2,5>>, <<1,6>>,
          <<3,3>>, <<0,6>>, <<4,5>>, <<0,5>>, <<0,4>>, <<6,6>>, <<0,1>>,
          <<0,2>>, <<1,1>>, <<5,5>>, <<2,4>>, <<2,6>>, <<3,6>>, <<5,6>> >>,
       << <<3,4>>, <<3,5>>, <<2,6>>, <<3,3>>, <<1,1>>, <<6,6>>, <<2,2>>,
          <<1,6>>, <<0,3>>, <<1,5>>, <<4,4>>, <<0,6>>, <<0,4>>, <<0,0>>,
          <<0,1>>, <<4,5>>, <<2,4>>, <<1,4>>, <<2,3>>, <<1,3>>, <<4,6>>,
          <<3,6>>, <<5,5>>, <<2,5>>, <<1,2>>, <<5,6>>, <<0,5>>, <<0,2>> >> >>

\* Outcomes of random.shuffle(_players) in new_game(shuffle_players=True).
ShuffledSeats == { <<"P2", "P3", "P4", "P1">> }

----------------------------------------------------------------------------
(* Python list helpers *)

Range(s) == { s[k] : k \in 1..Len(s) }

\* list.index(x), 0-based; x is in the list
IndexOf(s, x) ==
    (CHOOSE k \in 1..Len(s) : s[k] = x /\ \A j \in 1..(k-1) : s[j] # x) - 1

\* mutant: the head of the list is dropped, whatever x is
RemoveFirst_drop_head(s, x) == SubSeq(s, 2, Len(s))

\* list.remove(x): drops the first occurrence; x is in the list
RemoveFirst(s, x) ==
    LET k == IndexOf(s, x) + 1
    IN  SubSeq(s, 1, k - 1) \o SubSeq(s, k + 1, Len(s))

\* mutant: the stride is dropped, the slice takes neighbouring elements
SliceFrom_no_stride(s, i, step) ==
    [k \in 1..((Len(s) - i + step - 1) \div step) |-> s[i + k]]

\* s[i::step] with a 0-based start i
SliceFrom(s, i, step) ==
    [k \in 1..((Len(s) - i + step - 1) \div step) |-> s[i + step * (k - 1) + 1]]

\* d[::-1]
Reversed(d) == <<d[2], d[1]>>

----------------------------------------------------------------------------
(* Player *)

Action(insert_end, domino, flip) ==
    [insert_end |-> insert_end, domino |-> domino, flip |-> flip]

TurnDataPoint(player_name, did_play, domino_played) ==
    [player_name |-> player_name, did_play |-> did_play,
     domino_played |-> domino_played]

is_hand_empty(hand) == Len(hand) = 0

has_double_six(hand) ==
    Cardinality({k \in 1..Len(hand) : hand[k] = <<6,6>>}) = 1

\* mutant: the four ifs read as an if / elif chain (one Action per tile)
MovesOfTile_elif(d, head, tail) ==
    IF d[1] = tail THEN <<Action(TRUE, d, FALSE)>>
    ELSE IF d[2] = tail THEN <<Action(TRUE, d, TRUE)>>
    ELSE IF d[1] = head THEN <<Action(FALSE, d, TRUE)>>
    ELSE IF d[2] = head THEN <<Action(FALSE, d, FALSE)>>
    ELSE <<>>

\* the Actions one hand tile adds, in the order of the four ifs
MovesOfTile(d, head, tail) ==
       (IF d[1] = tail THEN <<Action(TRUE, d, FALSE)>> ELSE <<>>)
    \o (IF d[2] = tail THEN <<Action(TRUE, d, TRUE)>> ELSE <<>>)
    \o (IF d[1] = head THEN <<Action(FALSE, d, TRUE)>> ELSE <<>>)
    \o (IF d[2] = head THEN <<Action(FALSE, d, FALSE)>> ELSE <<>>)

RECURSIVE MovesFrom(_, _, _, _)
MovesFrom(hand, k, head, tail) ==
    IF k > Len(hand) THEN <<>>
    ELSE MovesOfTile(hand[k], head, tail) \o MovesFrom(hand, k + 1, head, tail)

\* mutant: on an empty board only the doubles may open
get_legal_moves_doubles_open(hand, board) ==
    IF Len(board) = 0
    THEN LET IsDouble(a) == a.domino[1] = a.domino[2]
         IN  SelectSeq([k \in 1..Len(hand) |-> Action(TRUE, hand[k], FALSE)],
                       IsDouble)
    ELSE MovesFrom(hand, 1, board[1][1], board[Len(board)][2])

get_legal_moves(hand, board) ==
    IF Len(board) = 0
    THEN [k \in 1..Len(hand) |-> Action(TRUE, hand[k], FALSE)]
    ELSE MovesFrom(hand, 1, board[1][1], board[Len(board)][2])

RECURSIVE SumPips(_, _)
SumPips(hand, k) ==
    IF k > Len(hand) THEN 0 ELSE hand[k][1] + hand[k][2] + SumPips(hand, k + 1)

get_points(hand) == SumPips(hand, 1)

\* the oriented tile take_turn places for a move
PlacedDomino(move) ==
    IF move.flip THEN Reversed(move.domino) ELSE move.domino

\* mutant: insert_end is not read, every tile is appended
BoardAfter_append_only(board, move) == Append(board, PlacedDomino(move))

\* mutant: a tile put at the head takes the place of the old head tile
BoardAfter_overwrite_head(board, move) ==
    IF move.insert_end THEN Append(board, PlacedDomino(move))
    ELSE <<PlacedDomino(move)>> \o Tail(board)

\* the board after take_turn has placed a move
BoardAfter(board, move) ==
    IF move.insert_end THEN Append(board, PlacedDomino(move))
    ELSE <<PlacedDomino(move)>> \o board

----------------------------------------------------------------------------
(* Game: pure parts *)

get_next_player_index(idx, pl) == (idx + 1) % Len(pl)

get_player_by_name(name, pl) ==
    pl[(CHOOSE k \in 1..Len(pl) : pl[k] = name /\ \A j \in 1..(k-1) : pl[j] # name)]

RECURSIVE CountEnds(_, _, _)
CountEnds(board, k, v) ==
    IF k > Len(board) THEN 0
    ELSE (IF board[k][1] = v THEN 1 ELSE 0) + (IF board[k][2] = v THEN 1 ELSE 0)
         + CountEnds(board, k + 1, v)

\* mutant: the count that locks the board is one too high
is_locked_off_by_one(board) ==
    /\ board[1][1] = board[Len(board)][2]
    /\ CountEnds(board, 1, board[1][1]) = LockCount + 1

\* mutant: eight or more occurrences lock the board
is_locked_at_least(board) ==
    /\ board[1][1] = board[Len(board)][2]
    /\ CountEnds(board, 1, board[1][1]) >= LockCount

is_locked(board) ==
    LET head == board[1][1]
        tail == board[Len(board)][2]
    IN  IF head # tail THEN FALSE
        ELSE CountEnds(board, 1, head) = LockCount

\* The scores after give_points_to_team(player, points).  The team is taken
\* from the seat of self.winner (win); the player argument is not read.
give_points_to_team(sc, pl, win, player, points) ==
    LET player_index == IndexOf(pl, win)
        team == IF player_index = 0 \/ player_index = 2
                THEN Range(SliceFrom(pl, 0, 2))
                ELSE Range(SliceFrom(pl, 1, 2))
    IN  [p \in DOMAIN sc |-> IF p \in team THEN sc[p] + points ELSE sc[p]]

\* check_for_bonus_points on the history, hands, scores, seats and winner it
\* reads: the scores it leaves, and whether it raised.  Past the two pattern
\* checks the last turn is a pass, so last_domino is None and
\* played_dominos.remove(None) raises ValueError.
check_for_bonus_points(hist, hands, sc, pl, win) ==
    LET n == Len(hist)
        last_move == hist[n]
        last_player == get_player_by_name(last_move.player_name, pl)
        last_four == SubSeq(hist, n - 3, n)
        same == [score |-> sc, raised |-> FALSE]
    IN  IF n < 2 THEN same
        ELSE IF last_move.did_play THEN same
        ELSE IF n = 2
             THEN [score |-> give_points_to_team(sc, pl, win, last_player, bonus_points),
                   raised |-> FALSE]
        ELSE IF n < 4 THEN same
        ELSE IF /\ last_four[1].did_play
                /\ ~last_four[2].did_play
                /\ ~last_four[3].did_play
                /\ ~last_four[4].did_play
             THEN [score |-> give_points_to_team(
                                 sc, pl, win,
                                 get_player_by_name(last_four[1].player_name, pl),
                                 bonus_points),
                   raised |-> FALSE]
        ELSE IF ~is_hand_empty(hands[last_player]) THEN same
        ELSE [score |-> sc, raised |-> TRUE]

\* the winner step() names when the board is locked
LockWinner(p_current, p_next, hands) ==
    IF get_points(hands[p_current]) < get_points(hands[p_next])
    THEN p_current ELSE p_next

\* mutant: the winner's own hand is left out of the total
update_score_result_losers_only(sc, pl, win, hands) ==
    give_points_to_team(sc, pl, win, win,
        get_points(hands[pl[1]]) + get_points(hands[pl[2]])
        + get_points(hands[pl[3]]) + get_points(hands[pl[4]])
        - get_points(hands[win]))

\* mutant: only the pips left in the winner's own hand are counted
update_score_result_own_hand(sc, pl, win, hands) ==
    give_points_to_team(sc, pl, win, win, get_points(hands[win]))

update_score_result(sc, pl, win, hands) ==
    LET total_points == get_points(hands[pl[1]]) + get_points(hands[pl[2]])
                        + get_points(hands[pl[3]]) + get_points(hands[pl[4]])
    IN  give_points_to_team(sc, pl, win, win, total_points)

----------------------------------------------------------------------------
(* Game: operations *)

NoHands == [p \in PlayerNames |-> <<>>]

ZeroScore == [p \in PlayerNames |-> 0]

\* After Game(round_score): no game started yet.
Init ==
    /\ pc = "idle"
    /\ players = DefaultPlayers
    /\ dominos = NoHands
    /\ score = ZeroScore
    /\ played_dominos = <<>>
    /\ round_history = <<>>
    /\ winner = DefaultPlayers[1]
    /\ first_game_round_step = FALSE
    /\ next_player_index = 0
    /\ deviations = 0
    /\ round_start_score = ZeroScore

\* play_game's call of new_game with fresh players, shuffled or not
new_game ==
    /\ pc = "idle"
    /\ \E seats \in {DefaultPlayers} \cup ShuffledSeats :
          /\ players' = seats
          /\ winner' = seats[1]
    /\ dominos' = NoHands
    /\ score' = ZeroScore
    /\ played_dominos' = <<>>
    /\ round_history' = <<>>
    /\ first_game_round_step' = TRUE
    /\ deviations' = 0
    /\ pc' = "loop"
    /\ UNCHANGED <<next_player_index, round_start_score>>

\* mutant: the scan for (6,6) is missing, the previous winner stays
DoubleSixHolder_no_scan(pl, hands, win) == win

\* the holder new_round finds when scanning the seats for (6,6)
DoubleSixHolder(pl, hands, win) ==
    IF \E k \in 1..Len(pl) : has_double_six(hands[pl[k]])
    THEN pl[CHOOSE k \in 1..Len(pl) :
                /\ has_double_six(hands[pl[k]])
                /\ \A j \in 1..(k-1) : ~has_double_six(hands[pl[j]])]
    ELSE win

\* play_game's loop test passing, then play_round's call of new_round
new_round ==
    /\ pc = "loop"
    /\ score[winner] < RoundScore
    /\ \E i \in 1..NumPools :
          LET pool == ShuffledPools[i]
              hands == [p \in PlayerNames |-> SliceFrom(pool, IndexOf(players, p), 4)]
              w == IF first_game_round_step
                   THEN DoubleSixHolder(players, hands, winner)
                   ELSE winner
          IN  /\ dominos' = hands
              /\ winner' = w
              /\ next_player_index' = IndexOf(players, w)
    /\ played_dominos' = <<>>
    /\ round_history' = <<>>
    /\ round_start_score' = score
    /\ pc' = "step"
    /\ UNCHANGED <<players, score, first_game_round_step, deviations>>

\* play_game's loop test failing
game_over ==
    /\ pc = "loop"
    /\ ~(score[winner] < RoundScore)
    /\ pc' = "done"
    /\ UNCHANGED <<players, dominos, score, played_dominos, round_history,
                   winner, first_game_round_step, next_player_index,
                   deviations, round_start_score>>

\* mutant: the empty-hand test is missing, only the lock ends a round
TurnEnd_no_empty_check(next_player, p_next, board2, hands2, win, idx, pl) ==
    IF is_locked(board2)
    THEN [winner |-> IF get_points(hands2[next_player]) < get_points(hands2[p_next])
                     THEN next_player ELSE p_next,
          go_on |-> FALSE, next_player_index |-> idx]
    ELSE [winner |-> win, go_on |-> TRUE,
          next_player_index |-> (idx + 1) % Len(pl)]

\* How step() ends once the bonus check is done: the winner it leaves,
\* whether it returns True (the round goes on) and the seat to move next.
TurnEnd(next_player, p_next, board2, hands2, win, idx, pl) ==
    IF is_hand_empty(hands2[next_player])
    THEN [winner |-> next_player, go_on |-> FALSE, next_player_index |-> idx]
    ELSE IF is_locked(board2)
    THEN [winner |-> LockWinner(next_player, p_next, hands2),
          go_on |-> FALSE, next_player_index |-> idx]
    ELSE [winner |-> win, go_on |-> TRUE,
          next_player_index |-> get_next_player_index(idx, pl)]

\* step() from the history append on: the turn of next_player left the board
\* board2 and the hand hand2.
FinishStep(next_player, did_play, board2, hand2, domino_played) ==
    LET hist2 == Append(round_history,
                        TurnDataPoint(next_player, did_play, domino_played))
        hands2 == [dominos EXCEPT ![next_player] = hand2]
        bonus == check_for_bonus_points(hist2, hands2, score, players, winner)
        p_next == players[get_next_player_index(next_player_index, players) + 1]
        end == TurnEnd(next_player, p_next, board2, hands2, winner,
                       next_player_index, players)
    IN  /\ played_dominos' = board2
        /\ dominos' = hands2
        /\ round_history' = hist2
        /\ score' = bonus.score
        /\ IF bonus.raised
           THEN /\ pc' = "error"
                /\ UNCHANGED <<winner, next_player_index>>
           ELSE /\ winner' = end.winner
                /\ next_player_index' = end.next_player_index
                /\ pc' = IF end.go_on THEN "step" ELSE "settle"
        /\ UNCHANGED <<players, round_start_score>>

\* step() in the first round of a game: the forced double six
step_double_six ==
    /\ pc = "step"
    /\ Len(round_history) < MaxTurns
    /\ first_game_round_step
    /\ LET next_player == players[next_player_index + 1]
       IN  /\ <<6,6>> \in Range(dominos[next_player])
           /\ FinishStep(next_player, TRUE,
                         Append(played_dominos, <<6,6>>),
                         RemoveFirst(dominos[next_player], <<6,6>>),
                         <<6,6>>)
    /\ first_game_round_step' = FALSE
    /\ UNCHANGED deviations

\* step() where take_turn finds no legal move
step_pass ==
    /\ pc = "step"
    /\ Len(round_history) < MaxTurns
    /\ ~first_game_round_step
    /\ LET next_player == players[next_player_index + 1]
       IN  /\ Len(get_legal_moves(dominos[next_player], played_dominos)) = 0
           /\ Len(played_dominos) > 0
           /\ FinishStep(next_player, FALSE, played_dominos,
                         dominos[next_player], None)
    /\ UNCHANGED <<first_game_round_step, deviations>>

\* step() where the chooser returns moves[i - 1], one of the legal moves
step_play ==
    /\ pc = "step"
    /\ Len(round_history) < MaxTurns
    /\ ~first_game_round_step
    /\ LET next_player == players[next_player_index + 1]
           moves == get_legal_moves(dominos[next_player], played_dominos)
       IN  \E i \in 1..Len(moves) :
              /\ i = 1 \/ deviations < MaxDeviations
              /\ deviations' = IF i = 1 THEN deviations ELSE deviations + 1
              /\ FinishStep(next_player, TRUE,
                            BoardAfter(played_dominos, moves[i]),
                            RemoveFirst(dominos[next_player], moves[i].domino),
                            PlacedDomino(moves[i]))
    /\ UNCHANGED first_game_round_step

\* play_round once step() has returned False
update_score ==
    /\ pc = "settle"
    /\ score' = update_score_result(score, players, winner, dominos)
    /\ pc' = "loop"
    /\ UNCHANGED <<players, dominos, played_dominos, round_history, winner,
                   first_game_round_step, next_player_index, deviations,
                   round_start_score>>

Next ==
    \/ new_game
    \/ new_round
    \/ game_over
    \/ step_double_six
    \/ step_pass
    \/ step_play
    \/ update_score

Spec == Init /\ [][Next]_vars

\* play_game and play_round are plain loops on one thread: nothing waits, so
\* whenever the next call (new_game, new_round, step, update_score, the loop
\* test) can run it does run.
SpecLive == Spec /\ WF_vars(Next)

----------------------------------------------------------------------------
(* A chooser that breaks its contract *)

\* a tile that is not in the hand
ForeignTile(hand) == CHOOSE d \in Range(DOMINOS) : d \notin Range(hand)

\* step() where the chooser returns an Action that is not one of the legal
\* moves it was offered.  take_turn places the tile without looking at the
\* list; list.remove raises ValueError when the tile is not in the hand, after
\* the board list has been changed in place.
step_bad_choice ==
    /\ pc = "step"
    /\ Len(round_history) < MaxTurns
    /\ ~first_game_round_step
    /\ deviations < MaxDeviations
    /\ LET next_player == players[next_player_index + 1]
           hand == dominos[next_player]
           moves == get_legal_moves(hand, played_dominos)
       IN  /\ Len(moves) > 0
           /\ \E move \in [insert_end : BOOLEAN,
                            domino : Range(hand) \cup {ForeignTile(hand)},
                            flip : BOOLEAN] \ Range(moves) :
                 IF move.domino \in Range(hand)
                 THEN FinishStep(next_player, TRUE,
                                 BoardAfter(played_dominos, move),
                                 RemoveFirst(hand, move.domino),
                                 PlacedDomino(move))
                 ELSE /\ played_dominos' = BoardAfter(played_dominos, move)
                      /\ pc' = "error"
                      /\ UNCHANGED <<players, dominos, score, round_history,
                                     winner, next_player_index,
                                     round_start_score>>
    /\ deviations' = deviations + 1
    /\ UNCHANGED first_game_round_step

NextProtocol == Next \/ step_bad_choice

SpecProtocol == Init /\ [][NextProtocol]_vars

----------------------------------------------------------------------------
(* A second game played with the player objects of the first *)

\* play_game(_players = the players of the finished game): new_game keeps the
\* list it is handed, _reset empties the board, the history and every hand
\* (Player.reset clears _dominos only), and Player.score is not assigned.
new_game_same_players ==
    /\ pc = "done"
    /\ \A p \in PlayerNames : score[p] <= MaxCarriedScore
    /\ winner' = players[1]
    /\ dominos' = NoHands
    /\ played_dominos' = <<>>
    /\ round_history' = <<>>
    /\ first_game_round_step' = TRUE
    /\ deviations' = 0
    /\ pc' = "loop"
    /\ UNCHANGED <<players, score, next_player_index, round_start_score>>

NextCarried == Next \/ new_game_same_players

SpecCarried == Init /\ [][NextCarried]_vars

----------------------------------------------------------------------------
(* is_locked and check_for_bonus_points called on their own *)

\* the oriented tiles the boards handed to is_locked are built from
ProbeTiles == { <<6,6>>, <<6,5>>, <<5,6>> }

ProbeBoards == UNION { [1..n -> ProbeTiles] : n \in 1..MaxBoardLen }

\* a game object whose board is one of the probe boards
InitLocked ==
    /\ pc = "is_locked"
    /\ played_dominos \in ProbeBoards
    /\ players = DefaultPlayers
    /\ dominos = NoHands
    /\ score = ZeroScore
    /\ round_history = <<>>
    /\ winner = DefaultPlayers[1]
    /\ first_game_round_step = FALSE
    /\ next_player_index = 0
    /\ deviations = 0
    /\ round_start_score = ZeroScore

call_is_locked ==
    /\ pc = "is_locked"
    /\ pc' = IF is_locked(played_dominos) THEN "locked" ELSE "not_locked"
    /\ UNCHANGED <<players, dominos, score, played_dominos, round_history,
                   winner, first_game_round_step, next_player_index,
                   deviations, round_start_score>>

SpecLocked == InitLocked /\ [][call_is_locked]_vars

\* the history of n turns taken in seat order from the first mover, with the
\* given played / passed pattern
ProbeHistory(first, pattern) ==
    [k \in 1..Len(pattern) |->
        TurnDataPoint(DefaultPlayers[((IndexOf(DefaultPlayers, first) + k - 1) % 4) + 1],
                      pattern[k],
                      IF pattern[k] THEN <<1,2>> ELSE None)]

\* a game object in a round: the first mover is the winner new_round left,
\* every hand holds tiles, and the history is any pattern of plays and passes
InitBonus ==
    /\ pc = "check_for_bonus_points"
    /\ players = DefaultPlayers
    /\ winner \in PlayerNames
    /\ \E n \in 1..MaxHistory : \E pattern \in [1..n -> BOOLEAN] :
          round_history = ProbeHistory(winner, pattern)
    /\ dominos = [p \in PlayerNames |->
                    SliceFrom(ShuffledPools[1], IndexOf(DefaultPlayers, p), 4)]
    /\ score = ZeroScore
    /\ played_dominos = <<>>
    /\ first_game_round_step = FALSE
    /\ next_player_index = 0
    /\ deviations = 0
    /\ round_start_score = ZeroScore

call_check_for_bonus_points ==
    /\ pc = "check_for_bonus_points"
    /\ LET bonus == check_for_bonus_points(round_history, dominos, score,
                                           players, winner)
       IN  /\ score' = bonus.score
           /\ pc' = IF bonus.raised THEN "error" ELSE "returned"
    /\ UNCHANGED <<players, dominos, played_dominos, round_history, winner,
                   first_game_round_step, next_player_index, deviations,
                   round_start_score>>

SpecBonus == InitBonus /\ [][call_check_for_bonus_points]_vars

----------------------------------------------------------------------------
(* Properties *)

\* the player whose turn step() runs, or has just run when the round ended
Actor == players[next_player_index + 1]

\* seats 0 & 2 against seats 1 & 3
SameTeam(p, q) == IndexOf(players, p) % 2 = IndexOf(players, q) % 2

\* C1: chain continuity.  In every reachable state of a round played with
\* choosers that answer one of the legal moves, every adjacent pair of tiles
\* on played_dominos has right(earlier) = left(following).
C1_ChainContinuity ==
    \A k \in 1..(Len(played_dominos) - 1) :
        played_dominos[k][2] = played_dominos[k + 1][1]

\* a board of five or more tiles with a flipped tile on it and a tile
\* prepended before the round's first tile
C1_Witness ==
    /\ Len(played_dominos) >= 5
    /\ \E k \in 1..Len(played_dominos) :
          played_dominos[k][1] > played_dominos[k][2]
    /\ round_history[1].domino_played # played_dominos[1]

\* the Actions the rule allows for a hand on a board, as a set
RuleActions(hand, board) ==
    LET head == board[1][1]
        tail == board[Len(board)][2]
    IN  { a \in [insert_end : BOOLEAN, domino : Range(hand), flip : BOOLEAN] :
            IF Len(board) = 0 THEN a.insert_end /\ ~a.flip
            ELSE \/ a.insert_end /\ ~a.flip /\ a.domino[1] = tail
                 \/ a.insert_end /\ a.flip /\ a.domino[2] = tail
                 \/ ~a.insert_end /\ ~a.flip /\ a.domino[2] = head
                 \/ ~a.insert_end /\ a.flip /\ a.domino[1] = head }

\* C2: get_legal_moves returns exactly the rule's Actions, each once: on an
\* empty board one unflipped tail-append per hand tile; otherwise the four
\* end / orientation matches of every hand tile; and it is empty exactly when
\* no hand tile carries the head or the tail value.  Checked for every hand
\* against the board of every reachable state.
C2_LegalMovesExact ==
    \A p \in PlayerNames :
        LET hand == dominos[p]
            moves == get_legal_moves(hand, played_dominos)
        IN  /\ Range(moves) = RuleActions(hand, played_dominos)
            /\ Len(moves) = Cardinality(RuleActions(hand, played_dominos))
            /\ Len(played_dominos) = 0 => Len(moves) = Len(hand)
            /\ Len(played_dominos) > 0 =>
                  ((Len(moves) = 0) <=>
                     \A k \in 1..Len(hand) :
                        /\ hand[k][1] \notin {played_dominos[1][1],
                                              played_dominos[Len(played_dominos)][2]}
                        /\ hand[k][2] \notin {played_dominos[1][1],
                                              played_dominos[Len(played_dominos)][2]})

\* a player holds the double of the value at both ends of the board: that one
\* tile yields four Actions
C2_Witness ==
    /\ Len(played_dominos) > 0
    /\ \E p \in PlayerNames : \E k \in 1..Len(dominos[p]) :
          /\ dominos[p][k][1] = dominos[p][k][2]
          /\ dominos[p][k][1] = played_dominos[1][1]
          /\ dominos[p][k][1] = played_dominos[Len(played_dominos)][2]
          /\ Len(MovesOfTile(dominos[p][k], played_dominos[1][1],
                             played_dominos[Len(played_dominos)][2])) = 4

\* C3: when the chooser returns an Action that is not in the legal-move list
\* offered for the turn, take_turn signals an error and the turn is not
\* applied: the board and every hand are left as they were.
C3_InvalidMoveRejected ==
    [][step_bad_choice =>
         /\ pc' = "error"
         /\ played_dominos' = played_dominos
         /\ dominos' = dominos]_vars

\* the player at the seat after the actor's
NextSeatPlayer == players[((next_player_index + 1) % 4) + 1]

\* a transition that is one call of step() which recorded a turn
StepTaken ==
    /\ pc = "step"
    /\ Len(round_history') = Len(round_history) + 1

\* C4: whenever the acting player's hand is empty after their turn, step()
\* ends the round at that turn (play_round leaves its loop) with that player
\* as the winner and the turn index not advanced, locked board or not.
C4_HandEmptyEndsRound ==
    [][(StepTaken /\ is_hand_empty(dominos'[Actor])) =>
          /\ pc' = "settle"
          /\ winner' = Actor
          /\ next_player_index' = next_player_index]_vars

\* a round ended by a player who emptied their hand with the tile that also
\* locked the board
C4_Witness ==
    /\ pc = "settle"
    /\ is_hand_empty(dominos[Actor])
    /\ winner = Actor
    /\ is_locked(played_dominos)

\* C5: when a turn leaves the board locked and the actor's hand is not empty,
\* the winner is whichever of the actor and the player at the next seat holds
\* fewer pips, and the actor when the two totals are equal.
C5_LockWinnerTieToCurrent ==
    (pc = "settle" /\ ~is_hand_empty(dominos[Actor])) =>
        winner = IF get_points(dominos[Actor]) <= get_points(dominos[NextSeatPlayer])
                 THEN Actor ELSE NextSeatPlayer

\* the pips of a set of tiles
RECURSIVE SetPips(_)
SetPips(S) ==
    IF S = {} THEN 0
    ELSE LET d == CHOOSE x \in S : TRUE
         IN  d[1] + d[2] + SetPips(S \ {d})

\* the pips left in the four hands
RemainingPips == SetPips(UNION { Range(dominos[p]) : p \in PlayerNames })

\* C7: when a round has ended, update_score adds the pips left in all four
\* hands to the score of both members of the round winner's team and leaves
\* the other team's scores as they were.
C7_Settlement ==
    [][pc = "settle" =>
          score' = [p \in PlayerNames |->
                      score[p] + IF SameTeam(p, winner) THEN RemainingPips ELSE 0]]_vars

\* a settled round that ended on a locked board with pips left in the
\* winner's own hand
C7_Witness ==
    /\ pc = "loop"
    /\ round_history # <<>>
    /\ ~is_hand_empty(dominos[winner])
    /\ RemainingPips > get_points(dominos[winner])
    /\ score[winner] >= round_start_score[winner] + RemainingPips

\* the last four turns are [played, passed, passed, passed]
PlayedThenThreePasses(hist) ==
    /\ Len(hist) >= 4
    /\ hist[Len(hist) - 3].did_play
    /\ ~hist[Len(hist) - 2].did_play
    /\ ~hist[Len(hist) - 1].did_play
    /\ ~hist[Len(hist)].did_play

\* C8: whenever the most recent four turns are [played, passed, passed,
\* passed], the 25 points go to the team of the player who made that play,
\* whoever moved first in the round, and the other team's score is unchanged.
C8_AllPassBonusToPlayersTeam ==
    [][(StepTaken /\ PlayedThenThreePasses(round_history')) =>
          score' = [p \in PlayerNames |->
                      score[p] +
                      IF SameTeam(p, round_history'[Len(round_history') - 3].player_name)
                      THEN bonus_points ELSE 0]]_vars

\* C9: in a round whose first four turns are [played, passed, passed, passed]
\* the bonus is given once over those four turns: 25 points to the team of
\* the player who played, nothing else.
C9_SingleAward ==
    (pc = "step" /\ Len(round_history) = 4 /\ PlayedThenThreePasses(round_history)) =>
        score = [p \in PlayerNames |->
                    round_start_score[p] +
                    IF SameTeam(p, round_history[1].player_name)
                    THEN bonus_points ELSE 0]

\* how often the value v shows on the board, each tile's two sides counted
EndOccurrences(board, v) ==
    Cardinality({ pos \in (1..Len(board)) \X {1, 2} : board[pos[1]][pos[2]] = v })

\* C6: on a non-empty board is_locked returns true exactly when head = tail
\* and that value shows exactly 8 times over the sides of all placed tiles:
\* false when head # tail, false at 7 or 9 occurrences.
C6_LockedIffEight ==
    pc \in {"locked", "not_locked"} =>
        ((pc = "locked") <=>
            /\ played_dominos[1][1] = played_dominos[Len(played_dominos)][2]
            /\ EndOccurrences(played_dominos, played_dominos[1][1]) = 8)

\* is_locked has answered true on a board with eight occurrences
C6_Witness ==
    /\ pc = "locked"
    /\ EndOccurrences(played_dominos, played_dominos[1][1]) = 8

FitsBothEnds(board, d) ==
    \/ d[1] = board[1][1] /\ d[2] = board[Len(board)][2]
    \/ d[2] = board[1][1] /\ d[1] = board[Len(board)][2]

\* C11: if the most recent turn played a tile that emptied the actor's hand,
\* and the board without that tile has head and tail equal to the tile's two
\* values in either order, the check for that turn gives 25 points to that
\* player's team and raises nothing.
C11_DominoOutFitBonus ==
    [][(/\ StepTaken
        /\ round_history'[Len(round_history')].did_play
        /\ is_hand_empty(dominos'[Actor])
        /\ Len(played_dominos) > 0
        /\ FitsBothEnds(played_dominos,
                        round_history'[Len(round_history')].domino_played)) =>
          /\ pc' # "error"
          /\ score' = [p \in PlayerNames |->
                         score[p] + IF SameTeam(p, Actor) THEN bonus_points ELSE 0]]_vars

\* C12: in the first round after new_game the deal makes the holder of (6,6)
\* the winner and the first mover; the first recorded turn is that player
\* placing (6,6) as the only board tile, taken from that hand alone, and it
\* clears first_game_round_step; once cleared the flag stays cleared for the
\* rest of the game, so no later turn or round forces a double six.
C12_DoubleSixOpening ==
    [][/\ (pc = "loop" /\ pc' = "step" /\ first_game_round_step) =>
              /\ has_double_six(dominos'[winner'])
              /\ players[next_player_index' + 1] = winner'
       /\ (StepTaken /\ first_game_round_step) =>
              /\ has_double_six(dominos[Actor])
              /\ played_dominos' = << <<6,6>> >>
              /\ round_history' = << TurnDataPoint(Actor, TRUE, <<6,6>>) >>
              /\ dominos' = [dominos EXCEPT
                               ![Actor] = RemoveFirst(dominos[Actor], <<6,6>>)]
              /\ ~first_game_round_step'
       /\ (pc # "idle" /\ ~first_game_round_step) => ~first_game_round_step'
      ]_vars

\* the double six opened the round from a seat other than the first, and the
\* flag is cleared
C12_Witness ==
    /\ Len(round_history) = 1
    /\ round_history[1] = TurnDataPoint(winner, TRUE, <<6,6>>)
    /\ played_dominos = << <<6,6>> >>
    /\ winner # players[1]
    /\ Len(dominos[winner]) = 6
    /\ ~first_game_round_step

\* C13: every new_round of a 4-player game leaves each seat with exactly 7
\* tiles, the four hands pairwise disjoint and together the full 28-tile set,
\* whatever the shuffled pool and whatever the hands held before; the board
\* and the round history are empty.
C13_DealPartition ==
    [][(pc = "loop" /\ pc' = "step") =>
          /\ \A p \in PlayerNames :
                /\ Len(dominos'[p]) = 7
                /\ Cardinality(Range(dominos'[p])) = 7
          /\ \A p, q \in PlayerNames :
                p # q => Range(dominos'[p]) \cap Range(dominos'[q]) = {}
          /\ UNION { Range(dominos'[p]) : p \in PlayerNames } = Range(DOMINOS)
          /\ Cardinality(Range(DOMINOS)) = 28
          /\ played_dominos' = <<>>
          /\ round_history' = <<>>]_vars

\* a fresh deal in a later round of a game, after a round that left points
\* on the score sheet
C13_Witness ==
    /\ pc = "step"
    /\ ~first_game_round_step
    /\ round_history = <<>>
    /\ played_dominos = <<>>
    /\ \A p \in PlayerNames : Len(dominos[p]) = 7
    /\ \E p \in PlayerNames : score[p] > 0

\* C14: when new_game returns every player's score is 0, also for player
\* objects that carry scores from an earlier game; a new round leaves the
\* scores as they are.
C14_NewGameZeroesScores ==
    [][/\ (pc \in {"idle", "done"} /\ pc' = "loop") => score' = ZeroScore
       /\ (pc = "loop" /\ pc' = "step") => score' = score]_vars

\* C15: play_game starts another round only while every player's score (so
\* both teams' scores, bonus points included) is below round_score, and it
\* stops only when some score has reached round_score.
C15_StopAtTarget ==
    [][/\ (pc = "loop" /\ pc' = "step") =>
              \A p \in PlayerNames : score[p] < RoundScore
       /\ (pc = "loop" /\ pc' = "done") =>
              \E p \in PlayerNames : score[p] >= RoundScore]_vars

\* the hand with its k-th tile taken out
WithoutIndex(hand, k) == SubSeq(hand, 1, k - 1) \o SubSeq(hand, k + 1, Len(hand))

\* C16: in an ordinary turn (not the forced double six) of a player with no
\* legal move, the board and all four hands stay as they are and exactly one
\* history entry (actor, did_play = False, no tile) is appended, with no
\* choice made; with at least one legal move exactly one tile leaves the
\* actor's hand, that tile in its placed orientation is added at one end of
\* the board and is the tile recorded in the one appended history entry, and
\* the other three hands stay as they are.
C16_PassNoOpPlayOneTile ==
    [][(StepTaken /\ ~first_game_round_step) =>
          LET hand == dominos[Actor]
              last == round_history'[Len(round_history')]
          IN  IF Len(get_legal_moves(hand, played_dominos)) = 0
              THEN /\ played_dominos' = played_dominos
                   /\ dominos' = dominos
                   /\ round_history' =
                         Append(round_history, TurnDataPoint(Actor, FALSE, None))
                   /\ deviations' = deviations
              ELSE /\ round_history' = Append(round_history, last)
                   /\ last.player_name = Actor
                   /\ last.did_play
                   /\ \E k \in 1..Len(hand) :
                         /\ dominos'[Actor] = WithoutIndex(hand, k)
                         /\ last.domino_played \in {hand[k], Reversed(hand[k])}
                   /\ \/ played_dominos' = Append(played_dominos, last.domino_played)
                      \/ played_dominos' = <<last.domino_played>> \o played_dominos
                   /\ \A p \in PlayerNames \ {Actor} : dominos'[p] = dominos[p]]_vars

\* a round in which some player has passed and the latest turn put a flipped
\* tile at the head of the board
C16_Witness ==
    /\ Len(round_history) >= 2
    /\ \E k \in 1..Len(round_history) : ~round_history[k].did_play
    /\ round_history[Len(round_history)].did_play
    /\ played_dominos[1] = round_history[Len(round_history)].domino_played
    /\ played_dominos[1][1] > played_dominos[1][2]
    /\ Len(played_dominos) > 1

\* no player holds a tile that carries the head or the tail value
NoPlayerCanMove ==
    /\ Len(played_dominos) > 0
    /\ \A p \in PlayerNames :
          Len(get_legal_moves(dominos[p], played_dominos)) = 0

\* the history holds four passes in a row
FourPassesInARow ==
    \E k \in 1..(Len(round_history) - 3) :
        \A j \in k..(k + 3) : ~round_history[j].did_play

\* C17: in every reachable state of a round in which no player holds a tile
\* matching the head or the tail of the board, is_locked is true and step()
\* has returned False; the history never holds four passes in a row; and
\* every round that is being played ends (play_round leaves its loop).
C17_RoundTerminates ==
    /\ [](NoPlayerCanMove => (is_locked(played_dominos) /\ pc # "step"))
    /\ [](~FourPassesInARow)
    /\ ((pc = "step") ~> (pc = "settle"))

\* a round ended on a blocked board with tiles left in the actor's hand,
\* after three passes in a row earlier in the round
C17_Witness ==
    /\ pc = "settle"
    /\ NoPlayerCanMove
    /\ is_locked(played_dominos)
    /\ ~is_hand_empty(dominos[Actor])
    /\ \E k \in 1..(Len(round_history) - 2) :
          \A j \in k..(k + 2) : ~round_history[j].did_play

\* a placed tile as the unordered pair DOMINOS lists
Unordered(d) == IF d[1] <= d[2] THEN d ELSE Reversed(d)

\* the tiles on the board, as unordered pairs
BoardTiles == { Unordered(played_dominos[k]) : k \in 1..Len(played_dominos) }

\* the history entries with did_play = True
PlayedTurns == { k \in 1..Len(round_history) : round_history[k].did_play }

\* C18: in every reachable state of a round the tiles on the board, taken as
\* unordered pairs, and the four hands form a partition of the 28 tiles: no
\* tile is on the board twice, on the board and in a hand, or in two hands,
\* and none is lost; board length + the hand sizes = 28, and the board
\* length is the number of history entries with did_play = True.
C18_TileConservation ==
    pc \in {"step", "settle"} =>
        /\ Cardinality(BoardTiles) = Len(played_dominos)
        /\ \A p \in PlayerNames :
              /\ Cardinality(Range(dominos[p])) = Len(dominos[p])
              /\ Range(dominos[p]) \cap BoardTiles = {}
              /\ \A q \in PlayerNames \ {p} :
                    Range(dominos[p]) \cap Range(dominos[q]) = {}
        /\ BoardTiles \cup UNION { Range(dominos[p]) : p \in PlayerNames }
              = Range(DOMINOS)
        /\ Len(played_dominos) + Len(dominos["P1"]) + Len(dominos["P2"])
              + Len(dominos["P3"]) + Len(dominos["P4"]) = 28
        /\ Len(played_dominos) = Cardinality(PlayedTurns)

\* a round well under way: ten or more tiles on the board, one of them
\* flipped, and a pass in the history
C18_Witness ==
    /\ pc = "step"
    /\ Len(played_dominos) >= 10
    /\ \E k \in 1..Len(played_dominos) :
          played_dominos[k][1] > played_dominos[k][2]
    /\ Cardinality(PlayedTurns) < Len(round_history)
    /\ \A p \in PlayerNames : Len(dominos[p]) < 7

\* C19: the first turn of every round places a tile.  Before the first turn
\* of a later round the board is empty and each of the first mover's 7 tiles
\* is a legal move; no round history begins with a pass, none begins with
\* two passes, and whenever the score has changed by the end of the second
\* turn the round opened [played, passed].
C19_FirstTurnPlays ==
    /\ (pc = "step" /\ round_history = <<>>) =>
          /\ played_dominos = <<>>
          /\ first_game_round_step => has_double_six(dominos[Actor])
          /\ ~first_game_round_step =>
                /\ Len(dominos[Actor]) = 7
                /\ Len(get_legal_moves(dominos[Actor], played_dominos)) = 7
    /\ Len(round_history) >= 1 =>
          /\ round_history[1].did_play
          /\ round_history[1].domino_played # None
    /\ Len(round_history) >= 2 =>
          ~(~round_history[1].did_play /\ ~round_history[2].did_play)
    /\ (Len(round_history) = 2 /\ score # round_start_score) =>
          (round_history[1].did_play /\ ~round_history[2].did_play)

\* a later round opened by the first mover with a tile other than (6,6)
C19_Witness ==
    /\ Len(round_history) = 1
    /\ round_history[1].did_play
    /\ round_history[1].domino_played # <<6,6>>
    /\ played_dominos = <<round_history[1].domino_played>>
    /\ Len(dominos[round_history[1].player_name]) = 6
    /\ \E p \in PlayerNames : round_start_score[p] > 0

\* C20: scores never decrease; when a round has ended some pips are left in
\* the hands and update_score adds at least 1 point to the round winner's
\* team; and a game started by new_game with fresh players ends: play_game's
\* loop test fails after finitely many rounds.
C20_GameTerminates ==
    /\ [][\A p \in PlayerNames : score'[p] >= score[p]]_vars
    /\ [](pc = "settle" => RemainingPips >= 1)
    /\ [][pc = "settle" =>
             \A p \in PlayerNames :
                SameTeam(p, winner) => score'[p] >= score[p] + 1]_vars
    /\ <>(pc = "done")

\* a game that ended after more than one round
C20_Witness ==
    /\ pc = "done"
    /\ score[winner] >= RoundScore
    /\ round_start_score # ZeroScore
    /\ score[winner] > round_start_score[winner]

====
